---- MODULE Spec2Model ----
(***************************************************************************)
(* Static integrity analyser: the taint lattice (Label, MultiLabel,        *)
(* MultiLabelling, Vulnerabilities) of analyser_classes.py and the         *)
(* transfer functions of ASTVisitor in ast_visitor.py.                     *)
(*                                                                         *)
(* Python objects are modelled as values: every place where the code       *)
(* shares an object (the one Label that create_for_uninitialised_variable  *)
(* installs under every vulnerability name, the MultiLabel that Assign     *)
(* stores under several targets) is only ever read through deepcopy or     *)
(* changed by an idempotent rewrite, so sharing is not observable.         *)
(***************************************************************************)
EXTENDS Integers, Sequences, FiniteSets, TLC

VARIABLES policy, multilabelling, vulnerabilities, conditions_stack,
          program, last, alg

vars == <<policy, multilabelling, vulnerabilities, conditions_stack, program, last, alg>>

(***************************************************************************)
(* Python list helpers                                                     *)
(***************************************************************************)

\* x in seq (list membership by ==, for values whose == is structural)
In(x, seq) == \E i \in 1..Len(seq) : seq[i] = x

\* seq[:-1]
ButLast(seq) == SubSeq(seq, 1, Len(seq) - 1)

(***************************************************************************)
(* Node                                                                    *)
(***************************************************************************)

\* Node(name, line); __eq__ and __hash__ use (name, line) only
Node(name, line) == [name |-> name, line |-> line]

\* The line that conciliation gives a synthetic uninitialised source
NoLine == -1

(***************************************************************************)
(* Pattern and Policy                                                      *)
(***************************************************************************)

Pattern(vuln_name, sources, sanitisers, sinks, implicit) ==
    [vuln_name |-> vuln_name, sources |-> sources, sanitisers |-> sanitisers,
     sinks |-> sinks, implicit |-> implicit]

is_source(pattern, name) == name \in pattern.sources

is_sanitiser(pattern, name) == name \in pattern.sanitisers

is_sink(pattern, name) == name \in pattern.sinks

is_implicit(pattern) == pattern.implicit = "yes"

get_patterns_by_source(pol, source) == {p \in pol : is_source(p, source)}

get_vulns(pol) == {p.vuln_name : p \in pol}

get_vulns_by_sanitiser(pol, sanitiser) ==
    {p.vuln_name : p \in {q \in pol : is_sanitiser(q, sanitiser)}}

get_non_sink_vulns(pol, name) ==
    {p.vuln_name : p \in {q \in pol : ~is_sink(q, name)}}

get_non_implicit_vulns(pol) ==
    {p.vuln_name : p \in {q \in pol : ~is_implicit(q)}}

(***************************************************************************)
(* Label: a list of pairs [source, flows], flows a list of sanitiser       *)
(* chains, each chain a list of Nodes                                      *)
(***************************************************************************)

Label_create_empty == <<>>

Pair(source, flows) == [source |-> source, flows |-> flows]

\* the loop of add_pair over other_pair's flows: append those not yet present
RECURSIVE AppendNewFlows(_, _)
AppendNewFlows(flows, other_flows) ==
    IF other_flows = <<>> THEN flows
    ELSE AppendNewFlows(IF In(Head(other_flows), flows) THEN flows
                        ELSE Append(flows, Head(other_flows)),
                        Tail(other_flows))

\* a variant of add_pair that appends the pair without looking for its source
add_pair_NoMerge(pairs, other_pair) == Append(pairs, other_pair)

add_pair(pairs, other_pair) ==
    IF \E i \in 1..Len(pairs) : pairs[i].source = other_pair.source
    THEN LET i == CHOOSE k \in 1..Len(pairs) :
                      /\ pairs[k].source = other_pair.source
                      /\ \A j \in 1..(k - 1) : pairs[j].source # other_pair.source
         IN [pairs EXCEPT ![i].flows = AppendNewFlows(@, other_pair.flows)]
    ELSE Append(pairs, other_pair)

\* Label(source): one pair with the single empty chain
Label(source) == add_pair(<<>>, Pair(source, << <<>> >>))

\* a variant of sanitise that appends the sanitiser to every chain
Label_sanitise_Always(label, sanitiser) ==
    [i \in 1..Len(label) |->
        [label[i] EXCEPT !.flows =
            [j \in 1..Len(label[i].flows) |-> Append(label[i].flows[j], sanitiser)]]]

Label_sanitise(label, sanitiser) ==
    [i \in 1..Len(label) |->
        [label[i] EXCEPT !.flows =
            [j \in 1..Len(label[i].flows) |->
                IF In(sanitiser, label[i].flows[j]) THEN label[i].flows[j]
                ELSE Append(label[i].flows[j], sanitiser)]]]

\* a variant of fix_lineno that leaves the line -1 in place
Label_fix_lineno_Keep(label, lineno) == label

Label_fix_lineno(label, lineno) ==
    [i \in 1..Len(label) |->
        IF label[i].source.line = NoLine
        THEN [label[i] EXCEPT !.source.line = lineno]
        ELSE label[i]]

\* Label.__eq__(self, other): same number of pairs and every pair of self is,
\* as [source, flows] with flows compared as an ordered list, a pair of other
Label_eq(self, other) ==
    /\ Len(self) = Len(other)
    /\ \A i \in 1..Len(self) : In(self[i], other)

RECURSIVE AddPairs(_, _)
AddPairs(pairs, other_pairs) ==
    IF other_pairs = <<>> THEN pairs
    ELSE AddPairs(add_pair(pairs, Head(other_pairs)), Tail(other_pairs))

\* a variant of combine that keeps only the first label's pairs
Label_combine_First(label1, label2) == label1

Label_combine(label1, label2) == AddPairs(label1, label2)

(***************************************************************************)
(* MultiLabel: label_map, a function from vulnerability names to Labels    *)
(***************************************************************************)

MultiLabel_create_empty == [v \in {} |-> <<>>]

\* the Label that MultiLabel.__init__ builds for one pattern from one label:
\* pairs whose source the pattern declares, chains cut down to its sanitisers
RestrictLabel(pattern, label) ==
    LET kept == SelectSeq(label, LAMBDA pair : pair.source.name \in pattern.sources)
        cut  == [i \in 1..Len(kept) |->
                    Pair(kept[i].source,
                         [j \in 1..Len(kept[i].flows) |->
                             SelectSeq(kept[i].flows[j],
                                       LAMBDA s : is_sanitiser(pattern, s.name))])]
    IN AddPairs(Label_create_empty, cut)

\* MultiLabel(patterns, [label]): the constructor is only ever called with one
\* label (and with no pattern by create_empty), and vulnerability names are
\* unique in a policy, so each name is installed at most once
MultiLabel(patterns, label) ==
    LET keep == {p \in patterns : Len(RestrictLabel(p, label)) > 0}
    IN [v \in {p.vuln_name : p \in keep} |->
           RestrictLabel(CHOOSE p \in keep : p.vuln_name = v, label)]

MultiLabel_get_vulns(ml) == DOMAIN ml

\* a variant of MultiLabel.sanitise that sanitises nothing
MultiLabel_sanitise_Skip(ml, pol, node) == ml

MultiLabel_sanitise(ml, pol, node) ==
    [v \in DOMAIN ml |->
        IF v \in get_vulns_by_sanitiser(pol, node.name)
        THEN Label_sanitise(ml[v], node)
        ELSE ml[v]]

\* a variant of MultiLabel.fix_lineno that rewrites nothing
MultiLabel_fix_lineno_Skip(ml, lineno) == ml

MultiLabel_fix_lineno(ml, lineno) ==
    [v \in DOMAIN ml |-> Label_fix_lineno(ml[v], lineno)]

\* MultiLabel.__eq__(self, other)
MultiLabel_eq(self, other) ==
    /\ Cardinality(DOMAIN self) = Cardinality(DOMAIN other)
    /\ \A v \in DOMAIN self : v \in DOMAIN other /\ Label_eq(self[v], other[v])

\* a variant that installs the synthetic source under no vulnerability name
create_for_uninitialised_variable_None(pol, node) == MultiLabel_create_empty

create_for_uninitialised_variable(pol, node) ==
    [v \in get_vulns(pol) |-> Label(node)]

MultiLabel_combine(multilabel1, multilabel2) ==
    [v \in DOMAIN multilabel1 \cup DOMAIN multilabel2 |->
        IF v \in DOMAIN multilabel2
        THEN IF v \in DOMAIN multilabel1
             THEN Label_combine(multilabel1[v], multilabel2[v])
             ELSE multilabel2[v]
        ELSE multilabel1[v]]

\* a variant that keeps the labels of every pattern, sink or not
get_illegal_flows_multilabel_All(pol, multilabel, node) == multilabel

get_illegal_flows_multilabel(pol, multilabel, node) ==
    [v \in DOMAIN multilabel \ get_non_sink_vulns(pol, node.name) |-> multilabel[v]]

\* a variant that keeps the labels of every pattern, implicit or not
get_implicit_patterns_multilabel_All(pol, multilabel) == multilabel

get_implicit_patterns_multilabel(pol, multilabel) ==
    [v \in DOMAIN multilabel \ get_non_implicit_vulns(pol) |-> multilabel[v]]

(***************************************************************************)
(* MultiLabelling: variable_map, a function from variable names to         *)
(* MultiLabels                                                             *)
(***************************************************************************)

MultiLabelling_create == [n \in {} |-> MultiLabel_create_empty]

is_variable_initialised(variable_map, variable) == variable \in DOMAIN variable_map

set_multilabel(variable_map, variable, multilabel) ==
    [n \in DOMAIN variable_map \cup {variable} |->
        IF n = variable THEN multilabel ELSE variable_map[n]]

\* a variant of conciliation that adds no synthetic source for a variable
\* bound on one side only
conciliate_multilabelling_NoUninit(pol, self, other) ==
    [n \in DOMAIN self \cup DOMAIN other |->
        IF n \in DOMAIN self
        THEN IF n \in DOMAIN other THEN MultiLabel_combine(self[n], other[n])
             ELSE self[n]
        ELSE other[n]]

conciliate_multilabelling(pol, self, other) ==
    [n \in DOMAIN self \cup DOMAIN other |->
        IF n \in DOMAIN self
        THEN IF n \in DOMAIN other
             THEN MultiLabel_combine(self[n], other[n])
             ELSE MultiLabel_combine(self[n],
                      create_for_uninitialised_variable(pol, Node(n, NoLine)))
        ELSE MultiLabel_combine(
                 create_for_uninitialised_variable(pol, Node(n, NoLine)), other[n])]

\* MultiLabelling.__eq__(self, other)
MultiLabelling_eq(self, other) ==
    /\ Cardinality(DOMAIN self) = Cardinality(DOMAIN other)
    /\ \A n \in DOMAIN self : n \in DOMAIN other /\ MultiLabel_eq(self[n], other[n])

(***************************************************************************)
(* Vulnerabilities: a function from vulnerability names to lists of        *)
(* observations [label, sink]                                              *)
(***************************************************************************)

Vulnerabilities_create == [v \in {} |-> <<>>]

Observation(label, sink) == [label |-> label, sink |-> sink]

\* (label, node) == (label', node'): tuple equality, Label.__eq__ then Node.__eq__.
\* In `x in list` the list's item is the left operand of == (Python 3.9 and later;
\* the match statement the visitor handles needs 3.10), which matters because
\* Label.__eq__ is not symmetric
Observation_eq(item, node_data) ==
    Label_eq(item.label, node_data.label) /\ item.sink = node_data.sink

\* a variant of add_vulnerability that appends without the membership test
add_vulnerability_NoTest(pol, vulns, multilabel, node) ==
    LET new_multilabel == get_illegal_flows_multilabel(pol, multilabel, node)
    IN [v \in DOMAIN vulns \cup DOMAIN new_multilabel |->
           IF v \in DOMAIN new_multilabel
           THEN IF v \in DOMAIN vulns
                THEN Append(vulns[v], Observation(new_multilabel[v], node))
                ELSE <<Observation(new_multilabel[v], node)>>
           ELSE vulns[v]]

add_vulnerability(pol, vulns, multilabel, node) ==
    LET new_multilabel == get_illegal_flows_multilabel(pol, multilabel, node)
    IN [v \in DOMAIN vulns \cup DOMAIN new_multilabel |->
           IF v \in DOMAIN new_multilabel
           THEN LET node_data == Observation(new_multilabel[v], node)
                IN IF v \in DOMAIN vulns
                   THEN IF \E i \in 1..Len(vulns[v]) : Observation_eq(vulns[v][i], node_data)
                        THEN vulns[v]
                        ELSE Append(vulns[v], node_data)
                   ELSE <<node_data>>
           ELSE vulns[v]]

\* other_vuln in self.vulnerabilities[vuln_name]: other_vuln is the whole LIST of
\* the other side's observations and the elements it is compared with are
\* (label, node) TUPLES; in Python a list never equals a tuple
ListInObservations(other_vuln, observations) ==
    \E i \in 1..Len(observations) : FALSE

conciliate_vulnerabilities(self, other) ==
    [v \in DOMAIN self \cup DOMAIN other |->
        IF v \in DOMAIN other
        THEN IF v \in DOMAIN self
             THEN IF ~ListInObservations(other[v], self[v])
                  THEN self[v] \o other[v]
                  ELSE self[v]
             ELSE other[v]
        ELSE self[v]]

\* Vulnerabilities.__repr__: the records of one vulnerability name, numbered
\* from 1 over every pair of every observation in list order
RECURSIVE PairRecords(_, _, _, _)
PairRecords(vuln_name, pairs, sink, i) ==
    IF pairs = <<>> THEN <<>>
    ELSE << [vulnerability     |-> <<vuln_name, i>>,
             source            |-> Head(pairs).source,
             sink              |-> sink,
             unsanitized_flows |-> IF \E k \in 1..Len(Head(pairs).flows) :
                                          Len(Head(pairs).flows[k]) = 0
                                   THEN "yes" ELSE "no",
             sanitized_flows   |-> SelectSeq(Head(pairs).flows,
                                             LAMBDA flow : Len(flow) > 0)] >>
         \o PairRecords(vuln_name, Tail(pairs), sink, i + 1)

\* a variant of the numbering that starts again at each observation
RECURSIVE Records_Restart(_, _, _)
Records_Restart(vuln_name, observations, i) ==
    IF observations = <<>> THEN <<>>
    ELSE PairRecords(vuln_name, Head(observations).label, Head(observations).sink, i)
         \o Records_Restart(vuln_name, Tail(observations), i)

RECURSIVE Records(_, _, _)
Records(vuln_name, observations, i) ==
    IF observations = <<>> THEN <<>>
    ELSE PairRecords(vuln_name, Head(observations).label, Head(observations).sink, i)
         \o Records(vuln_name, Tail(observations), i + Len(Head(observations).label))

Report(vulns, vuln_name) ==
    IF vuln_name \in DOMAIN vulns THEN Records(vuln_name, vulns[vuln_name], 1) ELSE <<>>

(***************************************************************************)
(* The AST.  Every node carries kind and lineno; the other fields follow   *)
(* Python's ast module.                                                    *)
(***************************************************************************)

Constant(lineno) == [kind |-> "Constant", lineno |-> lineno]

Name(id, lineno) == [kind |-> "Name", lineno |-> lineno, id |-> id]

Attribute(value, attr, lineno) ==
    [kind |-> "Attribute", lineno |-> lineno, value |-> value, attr |-> attr]

BinOp(left, right, lineno) ==
    [kind |-> "BinOp", lineno |-> lineno, left |-> left, right |-> right]

UnaryOp(operand, lineno) == [kind |-> "UnaryOp", lineno |-> lineno, operand |-> operand]

BoolOp(values, lineno) == [kind |-> "BoolOp", lineno |-> lineno, values |-> values]

Compare(left, comparators, lineno) ==
    [kind |-> "Compare", lineno |-> lineno, left |-> left, comparators |-> comparators]

Call(func, args, keywords, lineno) ==
    [kind |-> "Call", lineno |-> lineno, func |-> func, args |-> args,
     keywords |-> keywords]

keyword(value, lineno) == [kind |-> "keyword", lineno |-> lineno, value |-> value]

Expr(value, lineno) == [kind |-> "Expr", lineno |-> lineno, value |-> value]

Assign(targets, value, lineno) ==
    [kind |-> "Assign", lineno |-> lineno, targets |-> targets, value |-> value]

AugAssign(target, value, lineno) ==
    [kind |-> "AugAssign", lineno |-> lineno, target |-> target, value |-> value]

If(test, body, orelse, lineno) ==
    [kind |-> "If", lineno |-> lineno, test |-> test, body |-> body, orelse |-> orelse]

While(test, body, orelse, lineno) ==
    [kind |-> "While", lineno |-> lineno, test |-> test, body |-> body,
     orelse |-> orelse]

For(target, iter, body, orelse, lineno) ==
    [kind |-> "For", lineno |-> lineno, target |-> target, iter |-> iter,
     body |-> body, orelse |-> orelse]

Match(subject, cases, lineno) ==
    [kind |-> "Match", lineno |-> lineno, subject |-> subject, cases |-> cases]

\* guard is a list of at most one expression (empty: guard is None)
match_case(pattern, guard, body, lineno) ==
    [kind |-> "match_case", lineno |-> lineno, pattern |-> pattern, guard |-> guard,
     body |-> body]

MatchValue(value, lineno) == [kind |-> "MatchValue", lineno |-> lineno, value |-> value]

\* the wildcard pattern of `case _:`
MatchAs(lineno) == [kind |-> "MatchAs", lineno |-> lineno]

Break(lineno) == [kind |-> "Break", lineno |-> lineno]

Continue(lineno) == [kind |-> "Continue", lineno |-> lineno]

Pass(lineno) == [kind |-> "Pass", lineno |-> lineno]

(***************************************************************************)
(* ASTVisitor.  A visitor state is the record of the visitor's fields      *)
(* (deepcopy(self) is the record itself); err records that an exception    *)
(* left the visit, and log is a history of what the visit did, kept        *)
(* across forks.                                                           *)
(***************************************************************************)

\* the number of body iterations a loop analysis may run (range(10000) in the
\* code), scaled down so that a loop that never reaches a fixpoint can be run
IterationCap == 6

NewLog == [loops |-> <<>>, pushed |-> <<>>, replaced |-> <<>>]

Visitor(store, vulns, stack, log) ==
    [multilabelling |-> store, vulnerabilities |-> vulns, conditions_stack |-> stack,
     err |-> FALSE, log |-> log]

\* the value a visit returns: none (the visit returned None), or the pair
\* (handle, ml) with handle a list of handle nodes, and the visitor state after it
Result(none, handle, ml, st) == [none |-> none, handle |-> handle, ml |-> ml, st |-> st]

\* a handle node: a Node with its initialise flag
HNode(name, line, initialise) == [name |-> name, line |-> line, initialise |-> initialise]

\* an exception leaves the visit
Raise(st) == Result(TRUE, <<>>, MultiLabel_create_empty, [st EXCEPT !.err = TRUE])

\* conditions_stack.append(ml)
PushCondition(st, ml) ==
    [st EXCEPT !.conditions_stack = Append(@, ml), !.log.pushed = Append(@, ml)]

\* conditions_stack.pop()
\* a variant of the pop that leaves the stack as it is
PopCondition_Keep(stack) == stack

PopCondition(stack) == ButLast(stack)

\* list[pos] for a Python index, negative ones counting from the end
PyIndex(pos, len) == IF pos < 0 THEN len + pos + 1 ELSE pos + 1

\* reduce(MultiLabel.combine, stack, ml): the loops over conditions_stack
RECURSIVE CombineAll(_, _)
CombineAll(ml, stack) ==
    IF stack = <<>> THEN ml
    ELSE CombineAll(MultiLabel_combine(ml, Head(stack)), Tail(stack))

\* a variant of the variable lookup that never consults the store
get_variable_multilabel_Fresh(pol, store, name, lineno) ==
    create_for_uninitialised_variable(pol, Node(name, lineno))

get_variable_multilabel(pol, store, name, lineno) ==
    LET simple_node == Node(name, lineno)
        multilabel == MultiLabel(get_patterns_by_source(pol, name), Label(simple_node))
    IN IF is_variable_initialised(store, name)
       THEN MultiLabel_fix_lineno(MultiLabel_combine(store[name], multilabel), lineno)
       ELSE create_for_uninitialised_variable(pol, simple_node)

\* a variant of the loop over the callee chain that records before it sanitises
RECURSIVE SanitiseAndRecord_RecordFirst(_, _, _)
SanitiseAndRecord_RecordFirst(ml, vulns, func_variables) ==
    IF func_variables = <<>> THEN [ml |-> ml, vulnerabilities |-> vulns]
    ELSE LET node == Node(Head(func_variables).name, Head(func_variables).line)
         IN SanitiseAndRecord_RecordFirst(MultiLabel_sanitise(ml, policy, node),
                                          add_vulnerability(policy, vulns, ml, node),
                                          Tail(func_variables))

\* the loop of visit_Call over the callee chain: sanitise, then record
RECURSIVE SanitiseAndRecord(_, _, _)
SanitiseAndRecord(ml, vulns, func_variables) ==
    IF func_variables = <<>> THEN [ml |-> ml, vulnerabilities |-> vulns]
    ELSE LET node == Node(Head(func_variables).name, Head(func_variables).line)
             sanitised == MultiLabel_sanitise(ml, policy, node)
         IN SanitiseAndRecord(sanitised,
                              add_vulnerability(policy, vulns, sanitised, node),
                              Tail(func_variables))

\* the loop of visit_Call over the receivers of the chain (func_variables[:-1])
RECURSIVE CombineReceivers(_, _, _)
CombineReceivers(ml, store, receivers) ==
    IF receivers = <<>> THEN ml
    ELSE CombineReceivers(
             MultiLabel_combine(ml, get_variable_multilabel(policy, store,
                                        Head(receivers).name, Head(receivers).line)),
             store, Tail(receivers))

\* the loop of visit_Assign over the target nodes
RECURSIVE AssignTargets(_, _, _)
AssignTargets(st, value_multilabel, targets) ==
    IF targets = <<>> THEN st
    ELSE LET target_node == Head(targets)
             ml == CombineAll(value_multilabel, st.conditions_stack)
             recorded == add_vulnerability(policy, st.vulnerabilities, ml,
                                           Node(target_node.name, target_node.line))
             stored == IF target_node.initialise
                       THEN set_multilabel(st.multilabelling, target_node.name, ml)
                       ELSE st.multilabelling
         IN AssignTargets([st EXCEPT !.vulnerabilities = recorded,
                                     !.multilabelling = stored],
                          ml, Tail(targets))

RECURSIVE visit(_, _)
RECURSIVE VisitAll(_, _)
RECURSIVE VisitArguments(_, _, _)
RECURSIVE VisitTargets(_, _, _)
RECURSIVE VisitValues(_, _, _)
RECURSIVE VisitComparators(_, _, _)
RECURSIVE RunLoopBody(_, _)
RECURSIVE Iterate(_, _, _, _, _)
RECURSIVE VisitCases(_, _, _, _, _)

\* NodeVisitor.generic_visit, for the node kinds that have no visit_ method:
\* the children are visited and None is returned
generic_visit(st, node) ==
    IF node.kind = "keyword"
    THEN Result(TRUE, <<>>, MultiLabel_create_empty, visit(st, node.value).st)
    ELSE Result(TRUE, <<>>, MultiLabel_create_empty, st)

\* for n in nodes: self.visit(n)
VisitAll(st, nodes) ==
    IF nodes = <<>> \/ st.err THEN st
    ELSE VisitAll(visit(st, Head(nodes)).st, Tail(nodes))

visit_Name(st, node) ==
    Result(FALSE, <<HNode(node.id, node.lineno, TRUE)>>,
           get_variable_multilabel(policy, st.multilabelling, node.id, node.lineno), st)

visit_BinOp(st, node) ==
    LET left == visit(st, node.left)
        left_multilabel == IF left.none THEN MultiLabel_create_empty ELSE left.ml
        right == visit(left.st, node.right)
    IN IF left.st.err THEN Raise(left.st)
       ELSE IF right.st.err THEN Raise(right.st)
       ELSE IF right.none THEN Result(FALSE, <<>>, left_multilabel, right.st)
       ELSE Result(FALSE, <<>>, MultiLabel_combine(left_multilabel, right.ml), right.st)

\* `_, multiLabel = self.visit(node.operand)`: unpacking None raises
visit_UnaryOp(st, node) ==
    LET operand == visit(st, node.operand)
    IN IF operand.st.err \/ operand.none THEN Raise(operand.st)
       ELSE Result(FALSE, <<>>, operand.ml, operand.st)

\* the loop of visit_BoolOp over node.values; unpacking None raises
VisitValues(st, values, multilabel) ==
    IF values = <<>> \/ st.err THEN [ml |-> multilabel, st |-> st]
    ELSE LET value == visit(st, Head(values))
         IN IF value.st.err \/ value.none
            THEN [ml |-> multilabel, st |-> [value.st EXCEPT !.err = TRUE]]
            ELSE VisitValues(value.st, Tail(values),
                             MultiLabel_combine(multilabel, value.ml))

visit_BoolOp(st, node) ==
    LET values == VisitValues(st, node.values, MultiLabel_create_empty)
    IN IF values.st.err THEN Raise(values.st)
       ELSE Result(FALSE, <<>>, values.ml, values.st)

\* the loop of visit_Compare over node.comparators; None counts as empty
VisitComparators(st, comparators, multilabel) ==
    IF comparators = <<>> \/ st.err THEN [ml |-> multilabel, st |-> st]
    ELSE LET cmp == visit(st, Head(comparators))
             cmp_multilabel == IF cmp.none THEN MultiLabel_create_empty ELSE cmp.ml
         IN VisitComparators(cmp.st, Tail(comparators),
                             MultiLabel_combine(multilabel, cmp_multilabel))

\* `_, multilabel = self.visit(node.left)`: unpacking None raises
visit_Compare(st, node) ==
    LET left == visit(st, node.left)
        rest == VisitComparators(left.st, node.comparators, left.ml)
    IN IF left.st.err \/ left.none THEN Raise(left.st)
       ELSE IF rest.st.err THEN Raise(rest.st)
       ELSE Result(FALSE, <<>>, rest.ml, rest.st)

\* the loop of visit_Call over node.args + node.keywords
VisitArguments(st, arg_nodes, return_multilabel) ==
    IF arg_nodes = <<>> \/ st.err THEN [ml |-> return_multilabel, st |-> st]
    ELSE LET arg == visit(st, Head(arg_nodes))
             arg_multilabel == IF arg.none THEN MultiLabel_create_empty ELSE arg.ml
         IN VisitArguments(arg.st, Tail(arg_nodes),
                           MultiLabel_combine(return_multilabel, arg_multilabel))

\* a variant of visit_Call that leaves the store entry of the callee as it was
visit_Call_NoReset(st, node) ==
    LET func == visit(st, node.func)
        func_variables == func.handle
        args == VisitArguments(func.st, node.args \o node.keywords,
                               MultiLabel_create_empty)
        st1 == args.st
        with_conditions == CombineAll(args.ml, st1.conditions_stack)
        recorded == SanitiseAndRecord(with_conditions, st1.vulnerabilities,
                                      func_variables)
        with_receivers == CombineReceivers(recorded.ml, st1.multilabelling,
                                           ButLast(func_variables))
        callee == func_variables[Len(func_variables)]
        st2 == [st1 EXCEPT !.vulnerabilities = recorded.vulnerabilities]
    IN IF func.st.err THEN Raise(func.st)
       ELSE IF func.none \/ func.handle = <<>> THEN Raise(func.st)
       ELSE IF st1.err THEN Raise(st1)
       ELSE Result(FALSE, func_variables,
                   MultiLabel_combine(with_receivers,
                       MultiLabel(get_patterns_by_source(policy, callee.name),
                                  Label(Node(callee.name, callee.line)))),
                   st2)

visit_Call(st, node) ==
    LET func == visit(st, node.func)
        func_variables == func.handle
        args == VisitArguments(func.st, node.args \o node.keywords,
                               MultiLabel_create_empty)
        st1 == args.st
        with_conditions == CombineAll(args.ml, st1.conditions_stack)
        recorded == SanitiseAndRecord(with_conditions, st1.vulnerabilities,
                                      func_variables)
        with_receivers == CombineReceivers(recorded.ml, st1.multilabelling,
                                           ButLast(func_variables))
        callee == func_variables[Len(func_variables)]
        st2 == [st1 EXCEPT !.vulnerabilities = recorded.vulnerabilities,
                           !.multilabelling = set_multilabel(st1.multilabelling,
                                                  callee.name, MultiLabel_create_empty)]
    IN IF func.st.err THEN Raise(func.st)
       ELSE IF func.none \/ func.handle = <<>> THEN Raise(func.st)
       ELSE IF st1.err THEN Raise(st1)
       ELSE Result(FALSE, func_variables,
                   MultiLabel_combine(with_receivers,
                       MultiLabel(get_patterns_by_source(policy, callee.name),
                                  Label(Node(callee.name, callee.line)))),
                   st2)

visit_Attribute(st, node) ==
    LET value == visit(st, node.value)
        all_nodes == [i \in 1..Len(value.handle) |->
                         [value.handle[i] EXCEPT !.initialise = FALSE]]
        attr_multilabel == get_variable_multilabel(policy, value.st.multilabelling,
                                                   node.attr, node.lineno)
    IN IF value.st.err \/ value.none THEN Raise(value.st)
       ELSE Result(FALSE, Append(all_nodes, HNode(node.attr, node.lineno, TRUE)),
                   MultiLabel_combine(value.ml, attr_multilabel), value.st)

visit_Expr(st, node) ==
    LET value == visit(st, node.value)
    IN IF value.st.err \/ value.none THEN Raise(value.st)
       ELSE Result(FALSE, <<>>, value.ml, value.st)

\* the loop of visit_Assign that visits the targets and collects their nodes
VisitTargets(st, target_nodes, targets) ==
    IF target_nodes = <<>> \/ st.err THEN [targets |-> targets, st |-> st]
    ELSE LET target == visit(st, Head(target_nodes))
         IN IF target.st.err \/ target.none
            THEN [targets |-> targets, st |-> [target.st EXCEPT !.err = TRUE]]
            ELSE VisitTargets(target.st, Tail(target_nodes), targets \o target.handle)

visit_Assign(st, node) ==
    LET value == visit(st, node.value)
        value_multilabel == IF value.none THEN MultiLabel_create_empty ELSE value.ml
        targets == VisitTargets(value.st, node.targets, <<>>)
    IN IF value.st.err THEN Raise(value.st)
       ELSE IF targets.st.err THEN Raise(targets.st)
       ELSE Result(FALSE, <<>>, MultiLabel_create_empty,
                   AssignTargets(targets.st, value_multilabel, targets.targets))

visit_AugAssign(st, node) ==
    LET assigned == visit(st, Assign(<<node.target>>,
                                     BinOp(node.target, node.value, node.lineno),
                                     node.lineno))
    IN Result(TRUE, <<>>, MultiLabel_create_empty, assigned.st)

\* ml1.multilabelling.conciliate_multilabelling(policy, ml2.multilabelling) and
\* ml1.vulnerabilities.conciliate_vulnerabilities(ml2.vulnerabilities), installed
\* in the visitor whose conditions_stack is `stack`
Conciliated(ml1, ml2, stack) ==
    [multilabelling   |-> conciliate_multilabelling(policy, ml1.multilabelling,
                                                    ml2.multilabelling),
     vulnerabilities  |-> conciliate_vulnerabilities(ml1.vulnerabilities,
                                                     ml2.vulnerabilities),
     conditions_stack |-> stack,
     err              |-> ml1.err \/ ml2.err,
     log              |-> ml2.log]

\* a variant of visit_If whose second fork starts from the first fork's result
visit_If_Sequential(st, node) ==
    LET test == visit(st, node.test)
        self == IF test.none THEN test.st
                ELSE PushCondition(test.st,
                         get_implicit_patterns_multilabel(policy, test.ml))
        ml1 == VisitAll(self, node.body)
        ml2 == VisitAll(ml1, node.orelse)
        stack == IF test.none THEN self.conditions_stack
                 ELSE PopCondition(self.conditions_stack)
    IN IF test.st.err THEN Raise(test.st)
       ELSE IF ml1.err THEN Raise(ml1)
       ELSE IF ml2.err THEN Raise(ml2)
       ELSE Result(FALSE, <<>>, MultiLabel_create_empty, Conciliated(ml1, ml2, stack))

visit_If(st, node) ==
    LET test == visit(st, node.test)
        self == IF test.none THEN test.st
                ELSE PushCondition(test.st,
                         get_implicit_patterns_multilabel(policy, test.ml))
        ml1 == VisitAll(self, node.body)
        ml2 == VisitAll([self EXCEPT !.log = ml1.log], node.orelse)
        stack == IF test.none THEN self.conditions_stack
                 ELSE PopCondition(self.conditions_stack)
    IN IF test.st.err THEN Raise(test.st)
       ELSE IF ml1.err THEN Raise(ml1)
       ELSE IF ml2.err THEN Raise(ml2)
       ELSE Result(FALSE, <<>>, MultiLabel_create_empty, Conciliated(ml1, ml2, stack))

\* a loop position on conditions_stack: None, or a Python list index
NonePos == [none |-> TRUE, index |-> 0]

Pos(index) == [none |-> FALSE, index |-> index]

\* self.conditions_stack[pos] = test of __update_test, for the history: the
\* stack before and after it, and own, the list index at which the append of
\* the first call left this loop's test (pos was len(conditions_stack) - 1
\* before that append, and append stores at index len(conditions_stack))
Replacement(pos, stack, test) ==
    [own    |-> pos.index + 1,
     before |-> stack,
     after  |-> [stack EXCEPT ![PyIndex(pos.index, Len(stack))] = test]]

\* ASTVisitor.__update_test(test_node, pos): the state after it and the
\* position it returns
update_test(st, test_node, pos) ==
    LET visited == visit(st, test_node)
        st1 == visited.st
        test == get_implicit_patterns_multilabel(policy, visited.ml)
    IN IF st1.err \/ visited.none THEN [st |-> st1, pos |-> NonePos]
       ELSE IF pos.none
       THEN [st  |-> PushCondition(st1, test),
             pos |-> Pos(Len(st1.conditions_stack) - 1)]
       ELSE [st  |-> [st1 EXCEPT
                        !.conditions_stack[PyIndex(pos.index, Len(st1.conditions_stack))]
                            = test,
                        !.log.pushed = Append(@, test),
                        !.log.replaced = Append(@, Replacement(pos, st1.conditions_stack, test))],
             pos |-> pos]

\* the loop over node.body inside one iteration of visit_While and visit_For
RunLoopBody(st, body) ==
    IF body = <<>> \/ st.err THEN [st |-> st, found_break |-> FALSE]
    ELSE IF Head(body).kind = "Break" THEN [st |-> st, found_break |-> TRUE]
    ELSE IF Head(body).kind = "Continue" THEN [st |-> st, found_break |-> FALSE]
    ELSE RunLoopBody(visit(st, Head(body)).st, Tail(body))

\* a variant of the loop that stops after the first body iteration
Iterate_Once(ml1, ml_states, node, iws_pos, done) ==
    LET assigned == IF node.kind = "For"
                    THEN visit(ml1, Assign(<<node.target>>, node.iter, node.lineno)).st
                    ELSE ml1
        body == RunLoopBody(assigned, node.body)
    IN [st |-> body.st, found_break |-> body.found_break,
        exit |-> IF body.found_break THEN "break" ELSE "fixpoint", iterations |-> 1]

\* for _ in range(IterationCap): ... of visit_While and visit_For, after done
\* iterations; exit tells how the loop was left
Iterate(ml1, ml_states, node, iws_pos, done) ==
    IF done = IterationCap
    THEN [st |-> ml1, found_break |-> FALSE, exit |-> "cap", iterations |-> done]
    ELSE LET assigned == IF node.kind = "For"
                         THEN visit(ml1, Assign(<<node.target>>, node.iter,
                                                node.lineno)).st
                         ELSE ml1
             body == RunLoopBody(assigned, node.body)
             test_node == IF node.kind = "For" THEN node.iter ELSE node.test
         IN IF body.st.err
            THEN [st |-> body.st, found_break |-> FALSE, exit |-> "raise",
                  iterations |-> done + 1]
            ELSE IF body.found_break
            THEN [st |-> body.st, found_break |-> TRUE, exit |-> "break",
                  iterations |-> done + 1]
            ELSE IF \E k \in 1..Len(ml_states) :
                        MultiLabelling_eq(ml_states[k], body.st.multilabelling)
            THEN [st |-> body.st, found_break |-> FALSE, exit |-> "fixpoint",
                  iterations |-> done + 1]
            ELSE Iterate(update_test(body.st, test_node, iws_pos).st,
                         Append(ml_states, body.st.multilabelling),
                         node, iws_pos, done + 1)

\* visit_While and visit_For: the two differ in the test node (test, iter) and
\* in the assignment of iter to target that starts each iteration of a For
visit_Loop(st, node) ==
    LET updated == update_test(st, IF node.kind = "For" THEN node.iter ELSE node.test,
                               NonePos)
        self == updated.st
        iws_pos == updated.pos
        loop == Iterate(self, <<self.multilabelling>>, node, iws_pos, 0)
        ml1 == [loop.st EXCEPT !.log.loops =
                    Append(@, [exit |-> loop.exit, iterations |-> loop.iterations])]
        stack == IF iws_pos.none THEN self.conditions_stack
                 ELSE PopCondition(self.conditions_stack)
        adopted == [ml1 EXCEPT !.conditions_stack = stack]
        ml2 == VisitAll([self EXCEPT !.log = ml1.log], node.orelse)
    IN IF self.err THEN Raise(self)
       ELSE IF ml1.err THEN Raise(ml1)
       ELSE IF ~loop.found_break
       THEN LET after == VisitAll(adopted, node.orelse)
            IN IF after.err THEN Raise(after)
               ELSE Result(FALSE, <<>>, MultiLabel_create_empty, after)
       ELSE IF ml2.err THEN Raise(ml2)
       ELSE Result(FALSE, <<>>, MultiLabel_create_empty, Conciliated(ml1, ml2, stack))

visit_While(st, node) == visit_Loop(st, node)

visit_For(st, node) == visit_Loop(st, node)

visit_MatchValue(st, node) == visit(st, node.value)

visit_match_case(st, node) ==
    LET pattern == visit(st, node.pattern)
        st1 == IF pattern.none THEN pattern.st
               ELSE PushCondition(pattern.st,
                        get_implicit_patterns_multilabel(policy, pattern.ml))
        guard == IF node.guard = <<>> THEN Result(TRUE, <<>>, MultiLabel_create_empty, st1)
                 ELSE visit(st1, node.guard[1])
        st2 == IF guard.none THEN guard.st
               ELSE PushCondition(guard.st,
                        get_implicit_patterns_multilabel(policy, guard.ml))
    IN IF pattern.st.err THEN Raise(pattern.st)
       ELSE IF guard.st.err THEN Raise(guard.st)
       ELSE Result(FALSE, <<>>, MultiLabel_create_empty, VisitAll(st2, node.body))

\* the loop of visit_Match over the cases: i cases are done, cases is the running
\* conciliation [multilabelling, vulnerabilities] and conditions_stack the stack
\* handed from one case to the next
VisitCases(self, case_nodes, i, cases, carried) ==
    IF case_nodes = <<>> \/ carried.err
    THEN [cases |-> cases, err |-> carried.err, log |-> carried.log]
    ELSE LET state == visit([self EXCEPT !.conditions_stack = carried.conditions_stack,
                                         !.log = carried.log],
                            Head(case_nodes)).st
             merged == IF i = 0
                       THEN [multilabelling  |-> state.multilabelling,
                             vulnerabilities |-> state.vulnerabilities]
                       ELSE [multilabelling  |->
                                 conciliate_multilabelling(policy, cases.multilabelling,
                                                           state.multilabelling),
                             vulnerabilities |->
                                 conciliate_vulnerabilities(cases.vulnerabilities,
                                                            state.vulnerabilities)]
         IN VisitCases(self, Tail(case_nodes), i + 1, merged,
                       [conditions_stack |-> state.conditions_stack,
                        err |-> state.err, log |-> state.log])

visit_Match(st, node) ==
    LET subject == visit(st, node.subject)
        self == IF subject.none THEN subject.st
                ELSE PushCondition(subject.st,
                         get_implicit_patterns_multilabel(policy, subject.ml))
        done == VisitCases(self, node.cases, 0,
                           [multilabelling  |-> MultiLabelling_create,
                            vulnerabilities |-> Vulnerabilities_create],
                           [conditions_stack |-> self.conditions_stack,
                            err |-> FALSE, log |-> self.log])
        stack == IF subject.none THEN self.conditions_stack
                 ELSE PopCondition(self.conditions_stack)
    IN IF subject.st.err THEN Raise(subject.st)
       ELSE IF done.err THEN Raise([self EXCEPT !.log = done.log])
       ELSE Result(FALSE, <<>>, MultiLabel_create_empty,
                [multilabelling   |-> conciliate_multilabelling(policy,
                                          self.multilabelling, done.cases.multilabelling),
                 vulnerabilities  |-> conciliate_vulnerabilities(
                                          self.vulnerabilities, done.cases.vulnerabilities),
                 conditions_stack |-> stack,
                 err              |-> FALSE,
                 log              |-> done.log])

\* NodeVisitor.visit: dispatch on the node's class
visit(st, node) ==
    CASE node.kind = "Name"       -> visit_Name(st, node)
      [] node.kind = "BinOp"      -> visit_BinOp(st, node)
      [] node.kind = "UnaryOp"    -> visit_UnaryOp(st, node)
      [] node.kind = "BoolOp"     -> visit_BoolOp(st, node)
      [] node.kind = "Compare"    -> visit_Compare(st, node)
      [] node.kind = "Call"       -> visit_Call(st, node)
      [] node.kind = "Attribute"  -> visit_Attribute(st, node)
      [] node.kind = "Expr"       -> visit_Expr(st, node)
      [] node.kind = "Assign"     -> visit_Assign(st, node)
      [] node.kind = "AugAssign"  -> visit_AugAssign(st, node)
      [] node.kind = "If"         -> visit_If(st, node)
      [] node.kind = "While"      -> visit_While(st, node)
      [] node.kind = "For"        -> visit_For(st, node)
      [] node.kind = "Match"      -> visit_Match(st, node)
      [] node.kind = "match_case" -> visit_match_case(st, node)
      [] node.kind = "MatchValue" -> visit_MatchValue(st, node)
      [] OTHER                    -> generic_visit(st, node)

(***************************************************************************)
(* The programs and policies analysed.  Statement k of the module stands   *)
(* on line k, with the statements nested in it on the same line            *)
(* (`if c: a = src()`).                                                    *)
(***************************************************************************)

\* the number of top-level statements of the analysed module
MaxStmts == 2

Policies ==
    { {Pattern("v", {"a"}, {}, {"sink"}, "no")},
      {Pattern("v", {"a"}, {"clean"}, {"sink"}, "no")},
      {Pattern("v", {"a", "src"}, {"clean"}, {"sink"}, "no"),
       Pattern("w", {"src"}, {"x"}, {"sink", "x"}, "yes")} }

\* f(args) on line l
CallOf(f, args, l) == Call(Name(f, l), args, <<>>, l)

\* t = value on line l
AssignTo(t, value, l) == Assign(<<Name(t, l)>>, value, l)

ExprStmts(l) ==
    { Expr(CallOf("sink", <<arg>>, l), l) :
          arg \in {Name("a", l), Name("x", l), Constant(l),
                   CallOf("clean", <<Name("a", l)>>, l)} }
    \cup { Expr(Call(Attribute(Name("x", l), "sink", l), <<Name("a", l)>>, <<>>, l), l),
           Expr(CallOf("x", <<Name("a", l)>>, l), l),
           Expr(Call(Name("sink", l), <<>>, <<keyword(Name("a", l), l)>>, l), l),
           Expr(Constant(l), l),
           Expr(UnaryOp(Constant(l), l), l),
           Expr(UnaryOp(Name("a", l), l), l),
           Expr(BoolOp(<<Constant(l), Name("a", l)>>, l), l) }

AssignStmts(l) ==
    { AssignTo("a", value, l) :
          value \in {CallOf("src", <<>>, l), CallOf("clean", <<Name("a", l)>>, l),
                     Constant(l)} }
    \cup { AssignTo("x", value, l) :
          value \in {CallOf("src", <<>>, l), Name("a", l), Constant(l),
                     Compare(Constant(l), <<Name("a", l)>>, l),
                     Compare(Name("a", l), <<Constant(l)>>, l),
                     BoolOp(<<Name("a", l), Name("c", l)>>, l)} }

AugAssignStmts(l) == { AugAssign(Name("x", l), Name("a", l), l) }

IfStmts(l) ==
    { If(test, body, <<>>, l) :
          test \in {Name("c", l), CallOf("src", <<>>, l), CallOf("x", <<>>, l)},
          body \in { <<AssignTo("a", CallOf("src", <<>>, l), l)>>,
                     <<AssignTo("x", CallOf("src", <<>>, l), l)>>,
                     <<Expr(CallOf("sink", <<Constant(l)>>, l), l)>>,
                     <<AssignTo("x", Constant(l), l)>>,
                     <<Pass(l)>> } }
    \cup { If(Constant(l), <<AssignTo("x", CallOf("src", <<>>, l), l)>>, <<>>, l),
           If(CallOf("src", <<>>, l),
              <<While(Name("c", l), <<Expr(CallOf("sink", <<Constant(l)>>, l), l)>>,
                      <<>>, l)>>, <<>>, l),
           If(Name("c", l), <<AssignTo("x", Constant(l), l)>>,
              <<AssignTo("x", Name("a", l), l)>>, l),
           If(Name("c", l), <<Expr(CallOf("sink", <<Name("a", l)>>, l), l)>>,
              <<Expr(CallOf("sink", <<Name("a", l)>>, l), l)>>, l),
           If(Name("c", l), <<AssignTo("a", CallOf("src", <<>>, l), l)>>,
              <<AssignTo("x", Name("a", l), l)>>, l),
           If(Name("c", l), <<AssignTo("a", CallOf("clean", <<Name("a", l)>>, l), l)>>,
              <<>>, l),
           If(CallOf("src", <<>>, l),
              <<Match(Name("c", l),
                      <<match_case(MatchValue(Name("a", l), l), <<Name("c", l)>>,
                                   <<Expr(CallOf("sink", <<Constant(l)>>, l), l)>>, l)>>,
                      l)>>, <<>>, l) }

WhileStmts(l) ==
    { While(test, body, <<>>, l) :
          test \in {Name("c", l), CallOf("src", <<>>, l)},
          body \in { <<Pass(l)>>,
                     <<AssignTo("a", CallOf("clean", <<Name("a", l)>>, l), l)>>,
                     <<Expr(CallOf("sink", <<Constant(l)>>, l), l)>>,
                     <<AssignTo("x", Name("a", l), l),
                       AssignTo("a", CallOf("src", <<>>, l), l)>>,
                     <<Expr(CallOf("sink", <<Name("a", l)>>, l), l), Break(l)>> } }
    \cup { While(Name("c", l),
                 <<AssignTo("a", CallOf("src", <<>>, l), l), Break(l)>>,
                 <<AssignTo("x", Constant(l), l)>>, l),
           While(Name("cond", l),
                 <<AssignTo("x", Name("y", l), l),
                   AssignTo("y", CallOf("src", <<>>, l), l)>>, <<>>, l),
           While(Constant(l), <<Continue(l), AssignTo("x", Constant(l), l)>>,
                 <<AssignTo("x", Name("a", l), l)>>, l),
           While(Name("c", l),
                 <<If(Name("c", l),
                      <<Break(l), AssignTo("x", CallOf("src", <<>>, l), l)>>, <<>>, l)>>,
                 <<AssignTo("a", Constant(l), l)>>, l) }

ForStmts(l) ==
    { For(Name("x", l), iter, body, <<>>, l) :
          iter \in {Name("a", l), CallOf("src", <<>>, l)},
          body \in { <<Pass(l)>>,
                     <<Expr(CallOf("sink", <<Name("x", l)>>, l), l)>>,
                     <<Expr(CallOf("sink", <<Constant(l)>>, l), l)>>,
                     <<AssignTo("a", CallOf("clean", <<Name("a", l)>>, l), l)>> } }

MatchStmts(l) ==
    { Match(subject, cases, l) :
          subject \in {Name("c", l), CallOf("src", <<>>, l)},
          cases \in { << match_case(MatchValue(Constant(l), l), <<>>,
                                    <<AssignTo("x", CallOf("src", <<>>, l), l)>>, l),
                         match_case(MatchAs(l), <<>>,
                                    <<AssignTo("x", Constant(l), l)>>, l) >>,
                      << match_case(MatchValue(Name("a", l), l), <<Name("c", l)>>,
                                    <<Expr(CallOf("sink", <<Constant(l)>>, l), l)>>, l) >> } }

(***************************************************************************)
(* The analysis of a module: ASTVisitor(patterns), then one visit per      *)
(* top-level statement (generic_visit of the Module node)                  *)
(***************************************************************************)

\* nothing was analysed yet
NoLast ==
    [err |-> FALSE, loops |-> <<>>, pushed |-> <<>>, replaced |-> <<>>,
     before |-> [multilabelling |-> MultiLabelling_create,
                 vulnerabilities |-> Vulnerabilities_create,
                 conditions_stack |-> <<>>]]

\* the label algebra is not exercised
AlgIdle == [op |-> "idle"]

Init ==
    /\ policy \in Policies
    /\ multilabelling = MultiLabelling_create
    /\ vulnerabilities = Vulnerabilities_create
    /\ conditions_stack = <<>>
    /\ program = <<>>
    /\ last = NoLast
    /\ alg = AlgIdle

\* the visitor after self.visit(stmt) left it as done: its fields are those of
\* done, unless an exception ended the analysis
AfterVisit(stmt, done) ==
    /\ program' = Append(program, stmt)
    /\ last' = [err |-> done.err, loops |-> done.log.loops,
                pushed |-> done.log.pushed,
                replaced |-> done.log.replaced,
                before |-> [multilabelling |-> multilabelling,
                            vulnerabilities |-> vulnerabilities,
                            conditions_stack |-> conditions_stack]]
    /\ IF done.err
       THEN UNCHANGED <<multilabelling, vulnerabilities, conditions_stack>>
       ELSE /\ multilabelling' = done.multilabelling
            /\ vulnerabilities' = done.vulnerabilities
            /\ conditions_stack' = done.conditions_stack
    /\ UNCHANGED <<policy, alg>>

\* self.visit(stmt) on the visitor; an exception ends the analysis
VisitStatement(stmt) ==
    /\ Len(program) < MaxStmts
    /\ ~last.err
    /\ AfterVisit(stmt, visit(Visitor(multilabelling, vulnerabilities,
                                      conditions_stack, NewLog), stmt).st)

VisitExpr == \E stmt \in ExprStmts(Len(program) + 1) : VisitStatement(stmt)

VisitAssign == \E stmt \in AssignStmts(Len(program) + 1) : VisitStatement(stmt)

VisitAugAssign == \E stmt \in AugAssignStmts(Len(program) + 1) : VisitStatement(stmt)

VisitIf == \E stmt \in IfStmts(Len(program) + 1) : VisitStatement(stmt)

VisitWhile == \E stmt \in WhileStmts(Len(program) + 1) : VisitStatement(stmt)

VisitFor == \E stmt \in ForStmts(Len(program) + 1) : VisitStatement(stmt)

VisitMatch == \E stmt \in MatchStmts(Len(program) + 1) : VisitStatement(stmt)

Next ==
    \/ VisitExpr
    \/ VisitAssign
    \/ VisitAugAssign
    \/ VisitIf
    \/ VisitWhile
    \/ VisitFor
    \/ VisitMatch

Spec == Init /\ [][Next]_vars

(***************************************************************************)
(* The Label algebra on its own: Labels drawn from all the Labels over     *)
(* AlgSources and AlgChains that satisfy the Label invariants (pairwise    *)
(* distinct sources, pairwise distinct chains, at least one chain per      *)
(* pair), then one application of combine or of sanitise                   *)
(***************************************************************************)

AlgSources == {Node("a", 1), Node("src", 1)}

AlgChains == {<<>>, <<Node("clean", 1)>>}

AlgSanitisers == {Node("clean", 1), Node("clean", 2)}

\* the non-empty sequences without repetition over the set S
RECURSIVE DistinctSeqs(_)
DistinctSeqs(S) ==
    {<<x>> : x \in S}
    \cup UNION {{<<x>> \o rest : rest \in DistinctSeqs(S \ {x})} : x \in S}

AlgFlows == DistinctSeqs(AlgChains)

\* the Labels whose sources are, in order, those of the sequence sources
RECURSIVE LabelsOver(_)
LabelsOver(sources) ==
    IF sources = <<>> THEN {<<>>}
    ELSE {<<Pair(Head(sources), flows)>> \o rest :
              flows \in AlgFlows, rest \in LabelsOver(Tail(sources))}

AlgLabels == {<<>>} \cup UNION {LabelsOver(sources) : sources \in DistinctSeqs(AlgSources)}

InitLabel ==
    /\ policy = {Pattern("v", {"a", "src"}, {"clean"}, {"sink"}, "no")}
    /\ multilabelling = MultiLabelling_create
    /\ vulnerabilities = Vulnerabilities_create
    /\ conditions_stack = <<>>
    /\ program = <<>>
    /\ last = NoLast
    /\ \E l1, l2, l3 \in AlgLabels, s \in AlgSanitisers :
           alg = [op |-> "drawn", l1 |-> l1, l2 |-> l2, l3 |-> l3, s |-> s]

\* Label.combine on the drawn Labels, in both orders and both groupings
ApplyCombine ==
    /\ alg.op = "drawn"
    /\ alg' = [op |-> "combine", l1 |-> alg.l1, l2 |-> alg.l2, l3 |-> alg.l3,
               s |-> alg.s,
               c12 |-> Label_combine(alg.l1, alg.l2),
               c21 |-> Label_combine(alg.l2, alg.l1),
               c12_3 |-> Label_combine(Label_combine(alg.l1, alg.l2), alg.l3),
               c1_23 |-> Label_combine(alg.l1, Label_combine(alg.l2, alg.l3))]
    /\ UNCHANGED <<policy, multilabelling, vulnerabilities, conditions_stack,
                   program, last>>

\* label.sanitise(s), once and then once more
ApplySanitise ==
    /\ alg.op = "drawn"
    /\ alg' = [op |-> "sanitise", l1 |-> alg.l1, l2 |-> alg.l2, l3 |-> alg.l3,
               s |-> alg.s,
               once |-> Label_sanitise(alg.l1, alg.s),
               twice |-> Label_sanitise(Label_sanitise(alg.l1, alg.s), alg.s)]
    /\ UNCHANGED <<policy, multilabelling, vulnerabilities, conditions_stack,
                   program, last>>

NextLabel == ApplyCombine \/ ApplySanitise

SpecLabel == InitLabel /\ [][NextLabel]_vars

(***************************************************************************)
(* Properties                                                              *)
(***************************************************************************)

\* the statement analysed last, and its line
LastStmt == program[Len(program)]

\* the Labels held by the visitor: in the store, in the observations and on
\* conditions_stack
HeldLabels ==
    UNION {{multilabelling[n][v] : v \in DOMAIN multilabelling[n]} :
               n \in DOMAIN multilabelling}
    \cup UNION {{vulnerabilities[v][i].label : i \in 1..Len(vulnerabilities[v])} :
                    v \in DOMAIN vulnerabilities}
    \cup UNION {{conditions_stack[i][v] : v \in DOMAIN conditions_stack[i]} :
                    i \in 1..Len(conditions_stack)}

DistinctSources(label) ==
    \A i, j \in 1..Len(label) : i # j => label[i].source # label[j].source

DistinctFlows(label) ==
    \A i \in 1..Len(label) :
        \A j, k \in 1..Len(label[i].flows) :
            j # k => label[i].flows[j] # label[i].flows[k]

\* C1: after any statement sequence, the observation list of every vulnerability
\* name holds no two entries that are equal as (Label, sink) pairs
C1_NoDuplicateObservations ==
    \A v \in DOMAIN vulnerabilities :
        \A i, j \in 1..Len(vulnerabilities[v]) :
            i # j => ~Observation_eq(vulnerabilities[v][i], vulnerabilities[v][j])

\* C2: every Label the analysis stores or records has pairwise distinct source
\* nodes, compared by (name, line)
C2_DistinctSources == \A label \in HeldLabels : DistinctSources(label)

\* C3: in every Label the analysis stores or records, the chains of each pair are
\* pairwise different as ordered sequences of sanitiser nodes
C3_DistinctFlows == \A label \in HeldLabels : DistinctFlows(label)

\* C4: Label.combine is commutative and associative up to Label.__eq__, on Labels
\* that satisfy the Label invariants
C4_CombineCommutativeAssociative ==
    alg.op = "combine" =>
        /\ Label_eq(alg.c12, alg.c21)
        /\ Label_eq(alg.c12_3, alg.c1_23)

\* C5: Label.sanitise is idempotent (sanitising twice by s gives the Label that
\* sanitising once gives), and a chain that already contains s is left unchanged
C5_SanitiseIdempotent ==
    alg.op = "sanitise" =>
        /\ alg.twice = alg.once
        /\ Len(alg.once) = Len(alg.l1)
        /\ \A i \in 1..Len(alg.l1) :
               /\ alg.once[i].source = alg.l1[i].source
               /\ Len(alg.once[i].flows) = Len(alg.l1[i].flows)
               /\ \A j \in 1..Len(alg.l1[i].flows) :
                      IF In(alg.s, alg.l1[i].flows[j])
                      THEN alg.once[i].flows[j] = alg.l1[i].flows[j]
                      ELSE alg.once[i].flows[j] = Append(alg.l1[i].flows[j], alg.s)

\* C5 witness: sanitise acted on a Label with a chain that contains s and a chain
\* that does not
C5_Witness ==
    /\ alg.op = "sanitise"
    /\ \E i \in 1..Len(alg.l1) :
           /\ \E j \in 1..Len(alg.l1[i].flows) : In(alg.s, alg.l1[i].flows[j])
           /\ \E j \in 1..Len(alg.l1[i].flows) : ~In(alg.s, alg.l1[i].flows[j])
    /\ alg.once # alg.l1

\* the statement analysed last is `if test: x = src()` with no else, and it was
\* analysed without an exception
IfAssignsSource ==
    /\ Len(program) > 0
    /\ ~last.err
    /\ LastStmt.kind = "If"
    /\ LastStmt.orelse = <<>>
    /\ LastStmt.body = <<AssignTo("x", CallOf("src", <<>>, LastStmt.lineno),
                                  LastStmt.lineno)>>

\* the tests of the statement analysed last put no taint on conditions_stack
NoImplicitTaint ==
    \A i \in 1..Len(last.pushed) :
        \A v \in DOMAIN last.pushed[i] : last.pushed[i][v] = <<>>

\* the test of the statement analysed last is a call of the variable name
TestCalls(name) ==
    /\ LastStmt.test.kind = "Call"
    /\ LastStmt.test.func.kind = "Name"
    /\ LastStmt.test.func.id = name

\* label holds an unsanitised pair (one with an empty chain) of source node
Unsanitised(label, node) ==
    \E i \in 1..Len(label) : label[i].source = node /\ In(<<>>, label[i].flows)

\* label holds a pair of source node
HasSource(label, node) == \E i \in 1..Len(label) : label[i].source = node

\* the store entry of x holds the taint of src() and, under every vulnerability
\* name, an unsanitised pair of source Node(x, -1); a read of x on the next line l
\* gives that pair the source Node(x, l)
JoinedWithUninitialised ==
    LET l == Len(program) + 1
        read == get_variable_multilabel(policy, multilabelling, "x", l)
    IN /\ is_variable_initialised(multilabelling, "x")
       /\ \A p \in get_patterns_by_source(policy, "src") :
              /\ p.vuln_name \in DOMAIN multilabelling["x"]
              /\ Unsanitised(multilabelling["x"][p.vuln_name],
                             Node("src", LastStmt.lineno))
       /\ \A v \in get_vulns(policy) :
              /\ v \in DOMAIN multilabelling["x"]
              /\ Unsanitised(multilabelling["x"][v], Node("x", NoLine))
              /\ v \in DOMAIN read
              /\ Unsanitised(read[v], Node("x", l))
              /\ ~HasSource(read[v], Node("x", NoLine))

\* C6 as stated: after `if test: x = src()` with x unbound before the If and a
\* test that contributes no implicit taint, the store entry of x holds the taint
\* of src() and an unsanitised pair of source Node(x, -1) under every
\* vulnerability name, which a later read on line l turns into Node(x, l)
C6_AsStated ==
    (/\ IfAssignsSource
     /\ ~is_variable_initialised(last.before.multilabelling, "x")
     /\ NoImplicitTaint)
        => JoinedWithUninitialised

\* C6, amended: the same, for a test that does not call x (visit_Call binds the
\* called name to the empty MultiLabel before the fork, so x is then bound in
\* both forks and no Node(x, -1) pair is made)
C6_UninitialisedBranch ==
    (/\ IfAssignsSource
     /\ ~is_variable_initialised(last.before.multilabelling, "x")
     /\ NoImplicitTaint
     /\ ~TestCalls("x"))
        => JoinedWithUninitialised

\* C6 witness: `if 1: x = src()` was analysed with x unbound, under a policy
\* where src is a source: x holds both the (src, l) and the (x, -1) pair
C6_Witness ==
    /\ IfAssignsSource
    /\ ~is_variable_initialised(last.before.multilabelling, "x")
    /\ NoImplicitTaint
    /\ ~TestCalls("x")
    /\ get_patterns_by_source(policy, "src") # {}
    /\ \E v \in DOMAIN multilabelling["x"] :
           /\ HasSource(multilabelling["x"][v], Node("src", LastStmt.lineno))
           /\ HasSource(multilabelling["x"][v], Node("x", NoLine))

\* the policy and the program of the undefined-branch example:
\* `if c: a = src()` on line 1, `sink(a)` on line 2
UndefinedBranchExample ==
    /\ policy = {Pattern("v", {"a"}, {}, {"sink"}, "no")}
    /\ ~last.err
    /\ program = << If(Name("c", 1), <<AssignTo("a", CallOf("src", <<>>, 1), 1)>>,
                       <<>>, 1),
                    Expr(CallOf("sink", <<Name("a", 2)>>, 2), 2) >>

\* the records of the report of v whose sink is sink(a) on line 2
SinkRecords == SelectSeq(Report(vulnerabilities, "v"),
                         LAMBDA r : r.sink = Node("sink", 2))

FullySanitisedExample ==
    /\ \E p \in policy :
           /\ p.vuln_name = "v"
           /\ is_source(p, "a") /\ is_sanitiser(p, "clean") /\ is_sink(p, "sink")
           /\ ~is_implicit(p)
    /\ ~last.err
    /\ program = << Expr(CallOf("sink", <<CallOf("clean", <<Name("a", 1)>>, 1)>>, 1), 1) >>

\* C8: sink(clean(a)) records exactly one observation for v, at sink ["sink", 1],
\* whose source a has no empty chain and the only chain [["clean", 1]]
C8_InnerSanitiserReachesSink ==
    FullySanitisedExample =>
        /\ "v" \in DOMAIN vulnerabilities
        /\ vulnerabilities["v"] =
               << Observation(<<Pair(Node("a", 1), << <<Node("clean", 1)>> >>)>>,
                              Node("sink", 1)) >>
        /\ Report(vulnerabilities, "v") =
               << [vulnerability |-> <<"v", 1>>, source |-> Node("a", 1),
                   sink |-> Node("sink", 1), unsanitized_flows |-> "no",
                   sanitized_flows |-> << <<Node("clean", 1)>> >>] >>

\* C8 witness: sink(clean(a)) was analysed and v has an observation
C8_Witness ==
    /\ FullySanitisedExample
    /\ "v" \in DOMAIN vulnerabilities
    /\ Len(vulnerabilities["v"]) > 0

\* the names of the implicit patterns of the policy
ImplicitVulns == {p.vuln_name : p \in {q \in policy : is_implicit(q)}}

\* the test of the compound statement analysed last: the test of an If or a
\* While, the iter of a For, the subject of a Match
TestNode ==
    CASE LastStmt.kind = "For"   -> LastStmt.iter
      [] LastStmt.kind = "Match" -> LastStmt.subject
      [] OTHER                   -> LastStmt.test

\* the body of the compound statement analysed last (of its first case, for a
\* Match), or the body of the While that is all of that body
BodyNodes ==
    LET body == IF LastStmt.kind = "Match" THEN LastStmt.cases[1].body
                ELSE LastStmt.body
    IN IF body[1].kind = "While" THEN body[1].body ELSE body

\* the statement analysed last is an If, While, For or Match whose body is the
\* sink call sink(1) or the assignment x = 1, neither of which has a tainted
\* operand of its own
SinkInBody ==
    /\ Len(program) > 0
    /\ ~last.err
    /\ LastStmt.kind \in {"If", "While", "For", "Match"}
    /\ BodyNodes \in { <<Expr(CallOf("sink", <<Constant(LastStmt.lineno)>>,
                                     LastStmt.lineno), LastStmt.lineno)>>,
                       <<AssignTo("x", Constant(LastStmt.lineno), LastStmt.lineno)>> }

\* the sink of that body
SinkNode ==
    Node(IF BodyNodes[1].kind = "Expr" THEN "sink" ELSE "x", LastStmt.lineno)

\* the MultiLabel the visit of the test returned
TestMultilabel ==
    visit(Visitor(last.before.multilabelling, last.before.vulnerabilities,
                  last.before.conditions_stack, NewLog), TestNode).ml

\* an observation of vuln_name at the sink of the body holds the source node
ObservedAtSink(vuln_name, node) ==
    /\ vuln_name \in DOMAIN vulnerabilities
    /\ \E i \in 1..Len(vulnerabilities[vuln_name]) :
           /\ vulnerabilities[vuln_name][i].sink = SinkNode
           /\ HasSource(vulnerabilities[vuln_name][i].label, node)

\* C9: every MultiLabel put on conditions_stack mentions only names of implicit
\* patterns, and a sink in the body of an If/While/For/Match records, under a
\* pattern p of which it is a sink, the sources the test carries under p if and
\* only if p is implicit
C9_ImplicitOnly ==
    /\ \A i \in 1..Len(last.pushed) : DOMAIN last.pushed[i] \subseteq ImplicitVulns
    /\ \A i \in 1..Len(conditions_stack) :
           DOMAIN conditions_stack[i] \subseteq ImplicitVulns
    /\ SinkInBody =>
           \A p \in {q \in policy : is_sink(q, SinkNode.name)} :
               p.vuln_name \in DOMAIN TestMultilabel =>
                   \A k \in 1..Len(TestMultilabel[p.vuln_name]) :
                       ObservedAtSink(p.vuln_name, TestMultilabel[p.vuln_name][k].source)
                           <=> is_implicit(p)

\* C9 witness: `if src(): sink(1)` analysed under a policy with an implicit and a
\* non-implicit pattern that both have the source src and the sink sink: the
\* source of the test is observed under the first and not under the second
C9_Witness ==
    /\ SinkInBody
    /\ TestNode = CallOf("src", <<>>, LastStmt.lineno)
    /\ \E p, q \in policy :
           /\ is_implicit(p) /\ ~is_implicit(q)
           /\ is_sink(p, SinkNode.name) /\ is_sink(q, SinkNode.name)
           /\ is_source(p, "src") /\ is_source(q, "src")
           /\ ObservedAtSink(p.vuln_name, Node("src", LastStmt.lineno))
           /\ ~ObservedAtSink(q.vuln_name, Node("src", LastStmt.lineno))

\* C10: every loop analysis ends by fixpoint detection or by a top-level break,
\* never by exhausting the iteration cap, and a While whose body is `pass` stops
\* after exactly one body iteration
C10_LoopsEndByFixpoint ==
    /\ \A i \in 1..Len(last.loops) : last.loops[i].exit \in {"fixpoint", "break"}
    /\ (/\ Len(program) > 0
        /\ LastStmt.kind = "While"
        /\ LastStmt.body = <<Pass(LastStmt.lineno)>>
        /\ ~last.err)
           => /\ Len(last.loops) = 1
              /\ last.loops[1].iterations = 1

\* C12: every observation stored under a vulnerability name has a sink whose
\* name is a sink of the pattern of that name, and add_vulnerability leaves the
\* MultiLabel it is given as it was: after `a = clean(a)` the store entry of a
\* still holds the label of every pattern with source a of which clean is no sink
C12_ObservedAtDeclaredSinks ==
    /\ \A v \in DOMAIN vulnerabilities :
           \A i \in 1..Len(vulnerabilities[v]) :
               \E p \in policy :
                   /\ p.vuln_name = v
                   /\ is_sink(p, vulnerabilities[v][i].sink.name)
    /\ (/\ Len(program) > 0
        /\ ~last.err
        /\ LastStmt = AssignTo("a", CallOf("clean", <<Name("a", LastStmt.lineno)>>,
                                           LastStmt.lineno), LastStmt.lineno))
           => \A p \in {q \in policy : is_source(q, "a") /\ ~is_sink(q, "clean")} :
                  /\ p.vuln_name \in DOMAIN multilabelling["a"]
                  /\ HasSource(multilabelling["a"][p.vuln_name],
                               Node("a", LastStmt.lineno))

\* C12 witness: a call of a name that is a sink of one pattern and not of the
\* other was recorded under the first only (x under w, not under v)
C12_Witness ==
    /\ "w" \in DOMAIN vulnerabilities
    /\ \E i \in 1..Len(vulnerabilities["w"]) : vulnerabilities["w"][i].sink.name = "x"
    /\ \E p \in policy : p.vuln_name = "v" /\ ~is_sink(p, "x")

\* C13: no observation holds a source node with the line -1
C13_NoSentinelObserved ==
    \A v \in DOMAIN vulnerabilities :
        \A i \in 1..Len(vulnerabilities[v]) :
            \A k \in 1..Len(vulnerabilities[v][i].label) :
                vulnerabilities[v][i].label[k].source.line # NoLine

\* C13 witness: the store held a source of line -1 for a variable before the
\* last statement, and the last statement recorded that variable as a source
C13_Witness ==
    /\ Len(program) > 0
    /\ ~last.err
    /\ \E n \in DOMAIN last.before.multilabelling :
           \E v \in DOMAIN last.before.multilabelling[n] :
               /\ HasSource(last.before.multilabelling[n][v], Node(n, NoLine))
               /\ v \in DOMAIN vulnerabilities
               /\ \E i \in 1..Len(vulnerabilities[v]) :
                      /\ vulnerabilities[v][i].sink.line = LastStmt.lineno
                      /\ HasSource(vulnerabilities[v][i].label,
                                   Node(n, LastStmt.lineno))

\* the (pair, sink) couples of a list of observations, in insertion order
RECURSIVE FlatPairs(_)
FlatPairs(observations) ==
    IF observations = <<>> THEN <<>>
    ELSE [k \in 1..Len(Head(observations).label) |->
             [pair |-> Head(observations).label[k], sink |-> Head(observations).sink]]
         \o FlatPairs(Tail(observations))

\* C16: the records of one vulnerability name are numbered name_1, name_2, ...
\* from 1 without gap or repeat, one per (source pair, sink) over the
\* observations of the name in insertion order; unsanitized_flows is "yes"
\* exactly when the pair has the empty chain and sanitized_flows holds exactly the
\* non-empty chains, in order
C16_ReportNumbering ==
    \A v \in DOMAIN vulnerabilities :
        LET records == Report(vulnerabilities, v)
            flat == FlatPairs(vulnerabilities[v])
        IN /\ Len(records) = Len(flat)
           /\ \A k \in 1..Len(records) :
                  /\ records[k].vulnerability = <<v, k>>
                  /\ records[k].source = flat[k].pair.source
                  /\ records[k].sink = flat[k].sink
                  /\ (records[k].unsanitized_flows = "yes")
                         <=> In(<<>>, flat[k].pair.flows)
                  /\ records[k].unsanitized_flows \in {"yes", "no"}
                  /\ records[k].sanitized_flows =
                         SelectSeq(flat[k].pair.flows, LAMBDA flow : flow # <<>>)

\* C16 witness: a name with two observations, the first with a pair that has a
\* sanitised chain, so that the second observation's records are numbered on
C16_Witness ==
    \E v \in DOMAIN vulnerabilities :
        /\ Len(vulnerabilities[v]) >= 2
        /\ Len(Report(vulnerabilities, v)) >= 2
        /\ \E k \in 1..Len(Report(vulnerabilities, v)) :
               /\ Report(vulnerabilities, v)[k].unsanitized_flows = "no"
               /\ Report(vulnerabilities, v)[k].sanitized_flows # <<>>

\* the statement analysed last is `while cond: x = y; y = src()`
LaterTaintExample ==
    /\ Len(program) > 0
    /\ ~last.err
    /\ LastStmt = While(Name("cond", LastStmt.lineno),
                        <<AssignTo("x", Name("y", LastStmt.lineno), LastStmt.lineno),
                          AssignTo("y", CallOf("src", <<>>, LastStmt.lineno),
                                   LastStmt.lineno)>>,
                        <<>>, LastStmt.lineno)

\* C11: the analysis of `while cond: x = y; y = src()` ends by fixpoint within
\* the iteration cap, and under every pattern of which src is a source the store
\* entry of x holds an unsanitised pair of source src
C11_LaterTaintReachesEarlier ==
    LaterTaintExample =>
        /\ Len(last.loops) = 1
        /\ last.loops[1].exit = "fixpoint"
        /\ is_variable_initialised(multilabelling, "x")
        /\ \A p \in get_patterns_by_source(policy, "src") :
               /\ p.vuln_name \in DOMAIN multilabelling["x"]
               /\ Unsanitised(multilabelling["x"][p.vuln_name],
                              Node("src", LastStmt.lineno))

\* C11 witness: the loop was analysed under a policy where src is a source, and
\* took more than one body iteration
C11_Witness ==
    /\ LaterTaintExample
    /\ get_patterns_by_source(policy, "src") # {}
    /\ last.loops[1].iterations > 1

\* the visitor as it was before the statement analysed last
VisitorBefore ==
    Visitor(last.before.multilabelling, last.before.vulnerabilities,
            last.before.conditions_stack, NewLog)

\* C14: f(k=e) records the same observations at the sink f and returns the same
\* MultiLabel as f(e): after `sink(k=a)` the observations, the store and the
\* MultiLabel returned are those `sink(a)` gives from the same state
C14_KeywordLikePositional ==
    (/\ Len(program) > 0
     /\ ~last.err
     /\ LastStmt = Expr(Call(Name("sink", LastStmt.lineno), <<>>,
                             <<keyword(Name("a", LastStmt.lineno), LastStmt.lineno)>>,
                             LastStmt.lineno), LastStmt.lineno))
        => LET positional == visit(VisitorBefore,
                                   Expr(CallOf("sink", <<Name("a", LastStmt.lineno)>>,
                                               LastStmt.lineno), LastStmt.lineno))
           IN /\ ~positional.st.err
              /\ vulnerabilities = positional.st.vulnerabilities
              /\ multilabelling = positional.st.multilabelling
              /\ visit(VisitorBefore, LastStmt).ml = positional.ml

\* the statements on line l whose expression has a Constant operand: `1`,
\* `not 1`, `1 and a`, `x = 1 < a`
ConstantOperandStmts(l) ==
    { Expr(Constant(l), l),
      Expr(UnaryOp(Constant(l), l), l),
      Expr(BoolOp(<<Constant(l), Name("a", l)>>, l), l),
      AssignTo("x", Compare(Constant(l), <<Name("a", l)>>, l), l) }

\* C15: UnaryOp, BoolOp, Compare (as left operand) and Expr whose operand is a
\* Constant complete normally, the constant contributing nothing: `x = 1 < a`
\* gives x the MultiLabel of a
C15_ConstantOperandsComplete ==
    (/\ Len(program) > 0
     /\ LastStmt \in ConstantOperandStmts(LastStmt.lineno))
        => /\ ~last.err
           /\ LastStmt.kind = "Assign" =>
                  /\ is_variable_initialised(multilabelling, "x")
                  /\ multilabelling["x"] =
                         get_variable_multilabel(policy, last.before.multilabelling,
                                                 "a", LastStmt.lineno)

(***************************************************************************)
(* The report on its own.  self.vulnerabilities is a dict: its keys keep   *)
(* the order in which they were inserted and __repr__ walks them in that   *)
(* order.  add_vulnerability inserts the names of new_multilabel in the    *)
(* iteration order of get_vulns(), a set of strings, whose order the       *)
(* interpreter fixes per process (string hashes are randomised): any order *)
(* of the set may come out.  Two runs receive the same calls, each with    *)
(* its own iteration orders.                                               *)
(***************************************************************************)

MaxReportCalls == 2

ReportPolicy == {Pattern("v", {"src"}, {}, {"sink"}, "no"),
                 Pattern("w", {"src"}, {}, {"sink"}, "no")}

ReportLabel == <<Pair(Node("src", 1), <<<<>>>>)>>

\* the MultiLabels a sink call receives: src tainting v, w or both
ReportMultiLabels == { [v \in names |-> ReportLabel] : names \in (SUBSET {"v", "w"}) \ {{}} }

ReportSinks == {Node("sink", 2), Node("sink", 3)}

\* the orders in which iterating the set S can yield its elements
KeyOrders(S) == IF S = {} THEN {<<>>} ELSE {o \in DistinctSeqs(S) : Len(o) = Cardinality(S)}

\* the keys of a dict after the names of order were stored one by one
RECURSIVE InsertKeys(_, _)
InsertKeys(keys, order) ==
    IF order = <<>> THEN keys
    ELSE InsertKeys(IF In(Head(order), keys) THEN keys ELSE Append(keys, Head(order)),
                    Tail(order))

\* Vulnerabilities.__init__
ReportEmpty == [keys |-> <<>>, vulnerabilities |-> Vulnerabilities_create]

\* add_vulnerability on a dict with ordered keys, get_vulns() iterated in order
add_vulnerability_ordered(pol, self, multilabel, node, order) ==
    [keys            |-> InsertKeys(self.keys, order),
     vulnerabilities |-> add_vulnerability(pol, self.vulnerabilities, multilabel, node)]

\* conciliate_vulnerabilities on dicts with ordered keys: other's keys are
\* walked in other's dict order
conciliate_vulnerabilities_ordered(self, other) ==
    [keys            |-> InsertKeys(self.keys, other.keys),
     vulnerabilities |-> conciliate_vulnerabilities(self.vulnerabilities,
                                                    other.vulnerabilities)]

\* Vulnerabilities.__repr__: the records of every name, names in dict order
RECURSIVE Vulnerabilities_repr(_, _)
Vulnerabilities_repr(keys, vulns) ==
    IF keys = <<>> THEN <<>>
    ELSE Report(vulns, Head(keys)) \o Vulnerabilities_repr(Tail(keys), vulns)

InitReport ==
    /\ policy = ReportPolicy
    /\ multilabelling = MultiLabelling_create
    /\ vulnerabilities = Vulnerabilities_create
    /\ conditions_stack = <<>>
    /\ program = <<>>
    /\ last = NoLast
    /\ alg = [op |-> "report", calls |-> 0, run1 |-> ReportEmpty, run2 |-> ReportEmpty]

\* a sink call outside any branch: add_vulnerability in both runs
ReportAdd ==
    /\ alg.op = "report"
    /\ alg.calls < MaxReportCalls
    /\ \E multilabel \in ReportMultiLabels, node \in ReportSinks :
           LET names == DOMAIN get_illegal_flows_multilabel(policy, multilabel, node)
           IN \E order1, order2 \in KeyOrders(names) :
                  alg' = [alg EXCEPT
                             !.calls = @ + 1,
                             !.run1 = add_vulnerability_ordered(policy, @, multilabel,
                                                                node, order1),
                             !.run2 = add_vulnerability_ordered(policy, @, multilabel,
                                                                node, order2)]
    /\ UNCHANGED <<policy, multilabelling, vulnerabilities, conditions_stack,
                   program, last>>

\* a sink call in the body of an If without orelse: both forks are copies, the
\* first one records the call, then the first is conciliated with the second
ReportBranch ==
    /\ alg.op = "report"
    /\ alg.calls < MaxReportCalls
    /\ \E multilabel \in ReportMultiLabels, node \in ReportSinks :
           LET names == DOMAIN get_illegal_flows_multilabel(policy, multilabel, node)
           IN \E order1, order2 \in KeyOrders(names) :
                  alg' = [alg EXCEPT
                             !.calls = @ + 1,
                             !.run1 = conciliate_vulnerabilities_ordered(
                                          add_vulnerability_ordered(policy, @, multilabel,
                                                                    node, order1), @),
                             !.run2 = conciliate_vulnerabilities_ordered(
                                          add_vulnerability_ordered(policy, @, multilabel,
                                                                    node, order2), @)]
    /\ UNCHANGED <<policy, multilabelling, vulnerabilities, conditions_stack,
                   program, last>>

NextReport == ReportAdd \/ ReportBranch

SpecReport == InitReport /\ [][NextReport]_vars

\* C17: two runs on the same input give the same records in the same order,
\* whatever order the sets of vulnerability names are iterated in
C17_ReportDeterministic ==
    alg.op = "report" =>
        Vulnerabilities_repr(alg.run1.keys, alg.run1.vulnerabilities)
            = Vulnerabilities_repr(alg.run2.keys, alg.run2.vulnerabilities)

\* C18: re-evaluating a loop test replaces exactly the conditions_stack entry
\* pushed for this loop and leaves the entries of the enclosing tests unchanged
C18_ReplacesOwnEntry ==
    \A i \in 1..Len(last.replaced) :
        LET r == last.replaced[i]
        IN /\ Len(r.after) = Len(r.before)
           /\ \A k \in 1..Len(r.before) : k # r.own + 1 => r.after[k] = r.before[k]

\* the visitor right after the test of the If analysed last was evaluated and,
\* unless its visit returned None, pushed
AfterTest ==
    LET test == visit(VisitorBefore, LastStmt.test)
    IN IF test.none THEN test.st
       ELSE PushCondition(test.st, get_implicit_patterns_multilabel(policy, test.ml))

\* `if c: a = src() else: x = a` on line l: body binds the name orelse reads
BodyFeedsOrelse(l) ==
    If(Name("c", l), <<AssignTo("a", CallOf("src", <<>>, l), l)>>,
       <<AssignTo("x", Name("a", l), l)>>, l)

\* C19: the two forks of an If are independent: the store and the observations
\* after the If are the conciliation of what body alone and what orelse alone
\* give, each from the state right after the test was evaluated and pushed
C19_ForksIndependent ==
    (/\ Len(program) > 0
     /\ LastStmt.kind = "If"
     /\ ~last.err)
        => LET s1 == VisitAll(AfterTest, LastStmt.body)
               s2 == VisitAll(AfterTest, LastStmt.orelse)
           IN /\ multilabelling = conciliate_multilabelling(policy, s1.multilabelling,
                                                            s2.multilabelling)
              /\ vulnerabilities = conciliate_vulnerabilities(s1.vulnerabilities,
                                                              s2.vulnerabilities)
              /\ conditions_stack = last.before.conditions_stack

\* an If whose body taints a with src() while orelse copies a to x was analysed:
\* a holds src, x does not
C19_Witness ==
    /\ Len(program) > 0
    /\ LastStmt = BodyFeedsOrelse(LastStmt.lineno)
    /\ ~last.err
    /\ \E v \in DOMAIN multilabelling["a"] :
           \E i \in 1..Len(multilabelling["a"][v]) :
               multilabelling["a"][v][i].source.name = "src"
    /\ \A v \in DOMAIN multilabelling["x"] :
           \A i \in 1..Len(multilabelling["x"][v]) :
               multilabelling["x"][v][i].source.name # "src"

\* every case of the Match node binds x: the first statement of each case body
\* is an assignment to x
AssignsXInEveryCase(node) ==
    \A i \in 1..Len(node.cases) :
        LET body == node.cases[i].body
        IN /\ Len(body) > 0
           /\ body[1].kind = "Assign"
           /\ body[1].targets = <<Name("x", body[1].lineno)>>

\* how many items of the list observations are the observation item
Occurrences(item, observations) ==
    Cardinality({k \in 1..Len(observations) : observations[k] = item})

\* C20: after a Match the store and the vulnerabilities are the conciliation of
\* the per-case states only: x, unbound before and assigned in every case, gets
\* no synthetic source Node(x, -1), and no observation recorded before the
\* Match is added again
C20_MatchMergesCasesOnly ==
    (/\ Len(program) > 0
     /\ LastStmt.kind = "Match"
     /\ ~last.err)
        => /\ (/\ AssignsXInEveryCase(LastStmt)
               /\ ~is_variable_initialised(last.before.multilabelling, "x"))
                  => /\ is_variable_initialised(multilabelling, "x")
                     /\ ~\E v \in DOMAIN multilabelling["x"] :
                            HasSource(multilabelling["x"][v], Node("x", NoLine))
           /\ \A v \in DOMAIN last.before.vulnerabilities :
                  \A i \in 1..Len(last.before.vulnerabilities[v]) :
                      LET item == last.before.vulnerabilities[v][i]
                      IN Occurrences(item, vulnerabilities[v])
                             = Occurrences(item, last.before.vulnerabilities[v])

\* the names of the callee chain of a call's func node, receivers first
RECURSIVE ChainNames(_)
ChainNames(func) ==
    IF func.kind = "Attribute" THEN Append(ChainNames(func.value), func.attr)
    ELSE <<func.id>>

\* every chain of every pair of label holds node
InEveryChain(node, label) ==
    \A i \in 1..Len(label) :
        \A j \in 1..Len(label[i].flows) : In(node, label[i].flows[j])

\* C21: in a call, sanitisation by a chain node comes before the observation at
\* that node: the Label observed for v at the k-th node of the callee chain has,
\* in every chain, each of the first k chain nodes that is a sanitiser of v
C21_SanitisedBeforeRecorded ==
    (/\ Len(program) > 0
     /\ LastStmt.kind = "Expr"
     /\ LastStmt.value.kind = "Call"
     /\ ~last.err)
        => LET chain == ChainNames(LastStmt.value.func)
               l == LastStmt.lineno
           IN \A k \in 1..Len(chain) :
                  \A v \in DOMAIN vulnerabilities :
                      \A i \in 1..Len(vulnerabilities[v]) :
                          vulnerabilities[v][i].sink = Node(chain[k], l)
                              => \A j \in 1..k :
                                     chain[j] \in UNION {p.sanitisers :
                                                     p \in {q \in policy : q.vuln_name = v}}
                                         => InEveryChain(Node(chain[j], l),
                                                         vulnerabilities[v][i].label)

\* x.sink(a) was analysed under a policy whose pattern w has x both as a sink
\* and as a sanitiser, and sink as a sink: the observation at x and the later
\* one at sink both hold a pair whose only chain is x
C21_Witness ==
    /\ Len(program) > 0
    /\ ~last.err
    /\ \E p \in policy :
           /\ p.vuln_name = "w"
           /\ is_sanitiser(p, "x") /\ is_sink(p, "x") /\ is_sink(p, "sink")
    /\ LET l == LastStmt.lineno
       IN /\ LastStmt = Expr(Call(Attribute(Name("x", l), "sink", l),
                                  <<Name("a", l)>>, <<>>, l), l)
          /\ "w" \in DOMAIN vulnerabilities
          /\ \A callee \in {"x", "sink"} :
                 \E i \in 1..Len(vulnerabilities["w"]) :
                     /\ vulnerabilities["w"][i].sink = Node(callee, l)
                     /\ \E n \in 1..Len(vulnerabilities["w"][i].label) :
                            vulnerabilities["w"][i].label[n].flows
                                = << <<Node("x", l)>> >>

\* the argument node holds no call: a name or a constant, possibly passed by
\* keyword
CallFree(arg) ==
    IF arg.kind = "keyword" THEN arg.value.kind \in {"Name", "Constant"}
    ELSE arg.kind \in {"Name", "Constant"}

\* the statement analysed last is a call, alone on its line, whose arguments
\* hold no call
CallStatement ==
    /\ Len(program) > 0
    /\ LastStmt.kind = "Expr"
    /\ LastStmt.value.kind = "Call"
    /\ \A i \in 1..Len(LastStmt.value.args) : CallFree(LastStmt.value.args[i])
    /\ \A i \in 1..Len(LastStmt.value.keywords) : CallFree(LastStmt.value.keywords[i])
    /\ ~last.err

\* the last name of the callee chain of the call analysed last
CalleeName ==
    LET chain == ChainNames(LastStmt.value.func) IN chain[Len(chain)]

\* C22: a call without nested calls changes the store in one place only: the
\* entry of the last name of the callee chain becomes the empty MultiLabel,
\* whatever it held; every other entry, those of the arguments included, keeps
\* its value and the receivers of the chain are not bound
C22_CallBindsCalleeOnly ==
    CallStatement
        => /\ DOMAIN multilabelling = DOMAIN last.before.multilabelling \cup {CalleeName}
           /\ multilabelling[CalleeName] = MultiLabel_create_empty
           /\ \A n \in DOMAIN multilabelling \ {CalleeName} :
                  multilabelling[n] = last.before.multilabelling[n]

\* x(a) was analysed while the store held taint for both x and a: x is now
\* empty and a is as before
C22_Witness ==
    /\ CallStatement
    /\ LastStmt = Expr(CallOf("x", <<Name("a", LastStmt.lineno)>>, LastStmt.lineno),
                       LastStmt.lineno)
    /\ is_variable_initialised(last.before.multilabelling, "x")
    /\ last.before.multilabelling["x"] # MultiLabel_create_empty
    /\ is_variable_initialised(last.before.multilabelling, "a")
    /\ last.before.multilabelling["a"] # MultiLabel_create_empty
    /\ multilabelling["x"] = MultiLabel_create_empty
    /\ multilabelling["a"] = last.before.multilabelling["a"]

\* every (source, chain) of the MultiLabel part is in the MultiLabel whole,
\* under the same vulnerability name
Includes(whole, part) ==
    \A v \in DOMAIN part :
        /\ v \in DOMAIN whole
        /\ \A i \in 1..Len(part[v]) :
               \A j \in 1..Len(part[v][i].flows) :
                   \E k \in 1..Len(whole[v]) :
                       /\ whole[v][k].source = part[v][i].source
                       /\ In(part[v][i].flows[j], whole[v][k].flows)

\* the stores that the If analysed last hands to conciliate_multilabelling:
\* that of the body fork and that of the orelse fork
BodyStore == VisitAll(AfterTest, LastStmt.body).multilabelling

OrelseStore == VisitAll(AfterTest, LastStmt.orelse).multilabelling

\* C23: conciliate_multilabelling gives an upper bound of both stores (every
\* source and chain of either is in the result), gives a variable bound on one
\* side only the pair (Node(name, -1), [[]]) under every vulnerability name of
\* the policy, and gives the same store up to Label equality when the two
\* stores are swapped
C23_ConciliationUpperBoundSymmetric ==
    (/\ Len(program) > 0
     /\ LastStmt.kind = "If"
     /\ ~last.err)
        => LET joined == conciliate_multilabelling(policy, BodyStore, OrelseStore)
               swapped == conciliate_multilabelling(policy, OrelseStore, BodyStore)
           IN /\ DOMAIN joined = DOMAIN BodyStore \cup DOMAIN OrelseStore
              /\ \A n \in DOMAIN BodyStore : Includes(joined[n], BodyStore[n])
              /\ \A n \in DOMAIN OrelseStore : Includes(joined[n], OrelseStore[n])
              /\ \A n \in DOMAIN joined :
                     ~(n \in DOMAIN BodyStore /\ n \in DOMAIN OrelseStore)
                         => \A v \in get_vulns(policy) :
                                /\ v \in DOMAIN joined[n]
                                /\ In(Pair(Node(n, NoLine), << <<>> >>), joined[n][v])
              /\ MultiLabelling_eq(joined, swapped)
              /\ MultiLabelling_eq(swapped, joined)

\* a Break of the loop stands in the statement list body, or in the body or the
\* orelse of an If of that list
RECURSIVE HasBreak(_)
HasBreak(body) ==
    \E i \in 1..Len(body) :
        \/ body[i].kind = "Break"
        \/ /\ body[i].kind = "If"
           /\ HasBreak(body[i].body) \/ HasBreak(body[i].orelse)

\* `while c:` / `if c: break; x = src()` / `else: a = 1` on line l
NestedBreakExample(l) ==
    While(Name("c", l),
          <<If(Name("c", l), <<Break(l), AssignTo("x", CallOf("src", <<>>, l), l)>>,
               <<>>, l)>>,
          <<AssignTo("a", Constant(l), l)>>, l)

\* C24: a Break in the body of a loop, directly or inside an If of the body,
\* makes the loop analysis record found_break: the loop is left by the break in
\* its first iteration, the statements after the Break are not analysed (x of
\* `if c: break; x = src()` stays unbound) and orelse is analysed on a fork
\* that is conciliated with the loop state (a of `else: a = 1`, unbound before,
\* holds the synthetic source Node(a, -1))
C24_BreakRecorded ==
    (/\ Len(program) > 0
     /\ LastStmt.kind \in {"While", "For"}
     /\ HasBreak(LastStmt.body)
     /\ ~last.err)
        => /\ last.loops[Len(last.loops)].exit = "break"
           /\ last.loops[Len(last.loops)].iterations = 1
           /\ (/\ LastStmt = NestedBreakExample(LastStmt.lineno)
               /\ ~is_variable_initialised(last.before.multilabelling, "x")
               /\ ~is_variable_initialised(last.before.multilabelling, "a"))
                  => /\ ~is_variable_initialised(multilabelling, "x")
                     /\ \A v \in get_vulns(policy) :
                            /\ v \in DOMAIN multilabelling["a"]
                            /\ HasSource(multilabelling["a"][v], Node("a", NoLine))

\* the statements that push their test on conditions_stack
Compound == {"If", "While", "For", "Match"}

\* the visitor that analyses statement i of the body of the If analysed last:
\* the body fork after the statements before it
BodyForkAt(i) == VisitAll(AfterTest, SubSeq(LastStmt.body, 1, i - 1))

\* C25: when the visit of an If, While, For or Match returns, conditions_stack
\* has the entries it had before the statement, at the top level and for a
\* statement nested in the body of an If, whose fork has the If's test on its
\* stack; what the cases of a Match push stays on the forks of the cases
C25_StackRestored ==
    (/\ Len(program) > 0
     /\ LastStmt.kind \in Compound
     /\ ~last.err)
        => /\ conditions_stack = last.before.conditions_stack
           /\ LastStmt.kind = "If" =>
                  \A i \in 1..Len(LastStmt.body) :
                      LastStmt.body[i].kind \in Compound
                          => visit(BodyForkAt(i), LastStmt.body[i]).st.conditions_stack
                                 = BodyForkAt(i).conditions_stack

\* an If whose test was pushed as a non-empty MultiLabel holds a While or a
\* Match that pushed at least one entry more, and the stack is back to what it
\* was
C25_Witness ==
    /\ Len(program) > 0
    /\ LastStmt.kind = "If"
    /\ ~last.err
    /\ LastStmt.body[1].kind \in {"While", "Match"}
    /\ Len(AfterTest.conditions_stack) = 1
    /\ AfterTest.conditions_stack[1] # MultiLabel_create_empty
    /\ Len(last.pushed) >= 2
    /\ conditions_stack = <<>>

====
